---------------------------- MODULE Spec2Model ----------------------------
(***************************************************************************)
(* Model of the reiterator crate: the memoizing Cache of src/cache.rs and  *)
(* the indexed cursor Reiterator of src/lib.rs (specification Spec), and   *)
(* the split variant of the cursor in src/lib_split.rs, which caches the   *)
(* items in the vector itself (specification SpecSplit).                   *)
(*                                                                         *)
(* Memory is explicit.  Every cached item lives in a heap cell of its own  *)
(* (Pin<Box<Item>>); the vector `vec` holds the boxes, i.e. the addresses  *)
(* of those cells.  A reference handed out by Cache::get is the address of *)
(* the heap cell.                                                          *)
(***************************************************************************)
EXTENDS Integers, Sequences, FiniteSets, TLC

(***************************************************************************)
(* Bounds of the model.                                                    *)
(***************************************************************************)
\* longest script of the source (its calls to `next` that are listed)
MaxLen == 3
\* item values are 1..NumItems
NumItems == 2
\* lookups that come back absent are explored up to this many source calls
\* that returned nothing
MaxNones == 2

\* usize::MAX scaled down; it stays above every length that can be
\* materialized, as the real usize::MAX does
UsizeMax == MaxLen + 1
\* a run of Reiterator::next calls is followed this far: one call past the
\* longest source
TravLen == MaxLen + 1

Items == 1..NumItems
\* Option<Item>::None as returned by Iterator::next
NoItem == 0
\* a heap cell that holds no live allocation
Free == 0
\* heap addresses of boxed items; one cell per item that can exist
Addr == 1..(MaxLen + 1)
\* the null address: never the address of an allocation
NullRef == 0
Usize == 0..UsizeMax

VARIABLES
  src,      \* the script of the source as given to Cache::new (never changes)
  iter,     \* Cache::iter: what the source has left to answer
  vec,      \* Cache::vec: the boxes, as the addresses of their heap cells
  record,   \* Cache::record (cfg(test)): first address of every index
  heap,     \* heap cells of the boxed items
  index,    \* Reiterator::index
  last,     \* the last call made by the user and what it returned
            \* (`after`: the call before it, where a claim is about the pair)
  calls,    \* number of calls made to the source's `next`
  nones,    \* number of those calls that returned None
  held,     \* the reference the user holds on to, if any: <<index,
            \* reference, count() when it was handed out>>
  absentAt, \* least index for which a lookup returned absent, -1 if none
  fresh,    \* number of calls made so far, while the user has called
            \* nothing but Reiterator::next; -1 after any other call
  trav,     \* the traversal under way: what the next() calls since
            \* construction or a restart() returned, and how far a replay
            \* after a further restart() has come
  \* the split variant (lib_split.rs); it shares src, iter, index, last,
  \* calls and nones with the above
  cursor,   \* what Reiterator::new returned: "some" cursor or "none", and
            \* "panicked" once a call on the cursor has panicked
  cache,    \* Reiterator::cache: the items themselves, held in the vector
  buf,      \* the address of the vector's buffer
  populated,   \* Reiterator::populated (cfg(debug_assertions))
  first_value  \* the reference read for index 0 ahead of a traversal, and
               \* how far the traversal, restart() and second read have come

\* the variables of the variant of cache.rs and lib.rs alone
cachedVars == <<vec, record, heap, held, absentAt, fresh, trav>>
\* the variables of the variant of lib_split.rs alone
splitVars == <<cursor, cache, buf, populated, first_value>>

vars == <<src, iter, vec, record, heap, index, last, calls, nones,
          held, absentAt, fresh, trav,
          cursor, cache, buf, populated, first_value>>

(***************************************************************************)
(* The source: any Iterator.  Its script lists what successive calls to    *)
(* `next` answer, up to its last item; after the script every call answers *)
(* None.  A script may contain None before an item: Iterator does not      *)
(* promise that a source keeps answering None after its first None (that   *)
(* is FusedIterator).                                                      *)
(***************************************************************************)
RECURSIVE SeqsUpTo(_)
SeqsUpTo(n) ==
  IF n = 0 THEN {<<>>}
  ELSE LET shorter == SeqsUpTo(n - 1)
       IN shorter \cup { Append(s, x) : s \in { t \in shorter : Len(t) = n - 1 },
                                        x \in Items \cup {NoItem} }

Scripts == { s \in SeqsUpTo(MaxLen) : s = <<>> \/ s[Len(s)] # NoItem }

IsItem(x) == x # NoItem

\* the values the source yields, in order, when pulled from its initial state
Yields(s) == SelectSeq(s, IsItem)

\* the source keeps answering None after its first None
Fused(s) == \A i \in 1..Len(s) : s[i] = NoItem => \A j \in i..Len(s) : s[j] = NoItem

\* Iterator::next on the source
IterNext(it) ==
  IF it = <<>> THEN [item |-> NoItem, iter |-> <<>>]
  ELSE [item |-> Head(it), iter |-> Tail(it)]

(***************************************************************************)
(* Option<&Item> and Option<Indexed<Item>>                                 *)
(***************************************************************************)
NoneRef == [some |-> FALSE, ref |-> NullRef]
SomeRef(r) == [some |-> TRUE, ref |-> r]
NoneIndexed == [some |-> FALSE, index |-> 0, value |-> NullRef]
\* indexed::Indexed { index, value }
Indexed(i, r) == [some |-> TRUE, index |-> i, value |-> r]

Range(s) == { s[i] : i \in 1..Len(s) }

(***************************************************************************)
(* Cache::get                                                              *)
(***************************************************************************)
\* as Cached, but an element counts as cached only once a later one is too
CachedBehind(v, idx) == idx + 1 < Len(v)

\* self.vec.get(index) is Some
Cached(v, idx) == idx < Len(v)

\* the address of the vector slot that holds the box: it lies in the
\* vector's buffer, which is placed anew whenever the vector grows
GetSlotRef(v, idx) == (MaxLen + 1) + Len(v) * (UsizeMax + 1) + idx + 1

\* the address of the newest boxed item, whatever the index
GetLastRef(v, idx) == v[Len(v)]

\* cached.as_ref().get_ref(): the address of the boxed item, not of the
\* vector slot that holds the box
GetRef(v, idx) == v[idx + 1]

\* Box::pin allocates a cell that is not in use.  Addresses are opaque, so
\* the least free one stands for any of them.
FreeAddrs(h) == { a \in Addr : h[a] = Free }
BoxAddr(h) == CHOOSE a \in FreeAddrs(h) : \A b \in FreeAddrs(h) : a <= b

\* a push into a vector that keeps two elements and drops its oldest for
\* a third
VecPushEvicting(v, a) == IF Len(v) >= 2 THEN Append(Tail(v), a) ELSE Append(v, a)

\* a push at the front, which shifts every element one index up
VecPushFront(v, a) == <<a>> \o v

\* a push that keeps only the newest box
VecPushNewest(v, a) == <<a>>

\* a push that stores the box twice
VecPushTwice(v, a) == Append(Append(v, a), a)

\* Vec::push
VecPush(v, a) == Append(v, a)

\* a box that the vector no longer owns is dropped, and its cell freed
Owned(h, v) == [a \in Addr |-> IF a \in Range(v) THEN h[a] ELSE Free]

\* one round of the loop that found nothing cached and got `item`:
\* Box::pin, record.push, vec.push
Push(st, item) ==
  LET a == BoxAddr(st.heap)
      boxed == [st.heap EXCEPT ![a] = item]
      pushed == VecPush(st.vec, a)
  IN [st EXCEPT !.record = Append(st.record, a),
                !.vec = pushed,
                !.heap = Owned(boxed, pushed)]

\* `self.iter.next()?` got None: the call returns None
OnNone(st) == [st |-> st, ret |-> NoneRef]

\* as Poll, but the source is called twice and the first answer dropped
PollSkipping(st) ==
  LET skipped == IterNext(st.iter)
      nx == IterNext(skipped.iter)
  IN [item |-> nx.item,
      st |-> [st EXCEPT !.iter = nx.iter,
                        !.calls = @ + 2,
                        !.nones = IF nx.item = NoItem THEN @ + 1 ELSE @]]

\* self.iter.next(), and the count of the calls made to it
Poll(st) ==
  LET nx == IterNext(st.iter)
  IN [item |-> nx.item,
      st |-> [st EXCEPT !.iter = nx.iter,
                        !.calls = @ + 1,
                        !.nones = IF nx.item = NoItem THEN @ + 1 ELSE @]]

\* as Found, but always for the first element: the lookup starts over
FoundFirst(st, idx) == [st |-> st, ret |-> SomeRef(GetRef(st.vec, 0))]

\* Some(&*pointer) for the cached element
Found(st, idx) == [st |-> st, ret |-> SomeRef(GetRef(st.vec, idx))]

\* as get, but with one round in place of the loop: it gives up when the
\* round did not reach the index
getOnce(st, idx) ==
  IF Cached(st.vec, idx) THEN Found(st, idx)
  ELSE LET polled == Poll(st)
       IN IF polled.item = NoItem THEN OnNone(polled.st)
          ELSE LET pushed == Push(polled.st, polled.item)
               IN IF Cached(pushed.vec, idx) THEN Found(pushed, idx)
                  ELSE OnNone(pushed)

\* as get, but it calls the source once before it looks at what is cached
getPullFirst(st, idx) ==
  LET polled == Poll(st)
      after == IF polled.item = NoItem THEN polled.st
               ELSE Push(polled.st, polled.item)
  IN IF Cached(after.vec, idx) THEN Found(after, idx) ELSE OnNone(after)

\* Cache::get(index) from cache state st: the loop, run to its return
RECURSIVE get(_, _)
get(st, idx) ==
  IF Cached(st.vec, idx) THEN Found(st, idx)
  ELSE LET polled == Poll(st)
       IN IF polled.item = NoItem THEN OnNone(polled.st)
          ELSE get(Push(polled.st, polled.item), idx)

\* as is_empty, but true only while the source has not been called
is_empty_unpolled == calls = 0

\* Cache::is_empty
is_empty == vec = <<>>

CacheState ==
  [iter |-> iter, vec |-> vec, record |-> record,
   heap |-> heap, calls |-> calls, nones |-> nones]

\* the cache's fields take the values of outcome state st
SetCache(st) ==
  /\ iter' = st.iter
  /\ vec' = st.vec
  /\ record' = st.record
  /\ heap' = st.heap
  /\ calls' = st.calls
  /\ nones' = st.nones

\* as CacheUnchanged, but the element after the cached ones is fetched ahead
CachePrefetched == SetCache(getOnce(CacheState, Len(vec)).st)

\* a call that does not touch the cache
CacheUnchanged == UNCHANGED <<iter, vec, record, heap, calls, nones>>

\* what the user keeps of a lookup of idx that returned `some` with address r,
\* the cache then holding n elements: while holding no reference, the user
\* may hold on to the one returned
Observe(idx, some, r, n) ==
  /\ held' \in IF some /\ held = {} THEN {{}, {<<idx, r, n>>}} ELSE {held}
  /\ absentAt' = IF ~some /\ (absentAt = -1 \/ idx < absentAt) THEN idx ELSE absentAt

NoLookup == UNCHANGED <<held, absentAt>>

\* no traversal is followed: the user called something other than next()
\* and restart()
TravOff == [phase |-> "off", first |-> <<>>, pos |-> 0]
\* a traversal starts: at construction, or at a restart() that replays none
TravStart == [phase |-> "first", first |-> <<>>, pos |-> 0]

\* restart(): a traversal that was followed is now replayed from its start
TravRestart(t) ==
  IF t.phase = "off" THEN TravStart
  ELSE [phase |-> "replay", first |-> t.first, pos |-> 0]

\* next() returned ret: the first traversal grows by it (it is followed for
\* TravLen calls), a replay moves one call on (up to the first one's end)
TravNext(t, ret) ==
  IF t.phase = "first" /\ Len(t.first) < TravLen
    THEN [t EXCEPT !.first = Append(@, ret)]
  ELSE IF t.phase = "replay" /\ t.pos < Len(t.first)
    THEN [t EXCEPT !.pos = @ + 1]
  ELSE TravOff

(***************************************************************************)
(* Initial state: Cache::new / Reiterator::new / reiterate on any source   *)
(***************************************************************************)
\* there is no cursor of the split variant
SplitUnused ==
  /\ cursor = "none"
  /\ cache = <<>>
  /\ buf = 0
  /\ populated = FALSE
  /\ first_value = [phase |-> "off", ref |-> NullRef]

Init ==
  /\ src \in Scripts
  /\ iter = src
  /\ vec = <<>>
  /\ record = <<>>
  /\ heap = [a \in Addr |-> Free]
  /\ index = 0
  /\ last = [op |-> "new", arg |-> 0, lookup |-> FALSE, after |-> "",
             ret |-> NoneRef]
  /\ calls = 0
  /\ nones = 0
  /\ held = {}
  /\ absentAt = -1
  /\ fresh = 0
  /\ trav = TravStart
  /\ SplitUnused

(***************************************************************************)
(* Operations                                                              *)
(***************************************************************************)
\* what is kept of the call before call op: that get() came straight after
\* get(), or get() or next() straight after an assignment to the index
After(op, before) ==
  IF op = "get" /\ before = "get" THEN "get"
  ELSE IF op \in {"get", "next"} /\ before = "index=" THEN "index="
  ELSE ""

\* the cache is looked up at idx by call op, which hands the user `ret`
Lookup(op, idx, out, ret) ==
  /\ out.st.nones <= MaxNones
  /\ SetCache(out.st)
  /\ last' = [op |-> op, arg |-> idx, lookup |-> TRUE,
              after |-> After(op, last.op), ret |-> ret]
  /\ Observe(idx, out.ret.some, out.ret.ref, Len(out.st.vec))

\* as WithIndex, but with the index one too high
WithIndexNext(idx, opt) ==
  IF opt.some THEN Indexed(idx + 1, opt.ref) ELSE NoneIndexed

\* Option<&Item> made Option<Indexed>
WithIndex(idx, opt) == IF opt.some THEN Indexed(idx, opt.ref) ELSE NoneIndexed

\* Reiterator::at(i), which is Cache::get(i)
At(i) ==
  LET out == get(CacheState, i)
  IN /\ Lookup("at", i, out, out.ret)
     /\ fresh' = -1
     /\ trav' = TravOff
     /\ UNCHANGED <<src, index>>
     /\ UNCHANGED splitVars

\* Reiterator::get()
Get ==
  LET out == get(CacheState, index)
  IN /\ Lookup("get", index, out, WithIndex(index, out.ret))
     /\ fresh' = -1
     /\ trav' = TravOff
     /\ UNCHANGED <<src, index>>
     /\ UNCHANGED splitVars

\* as CheckedIncr, but wrapping: usize::wrapping_add(1)
WrappingIncr(i) == [some |-> TRUE, val |-> (i + 1) % (UsizeMax + 1)]

\* usize::checked_add(1)
CheckedIncr(i) == IF i < UsizeMax THEN [some |-> TRUE, val |-> i + 1]
                  ELSE [some |-> FALSE, val |-> 0]

\* Reiterator::lazy_next()
LazyNext ==
  LET incr == CheckedIncr(index)
  IN /\ index' = IF incr.some THEN incr.val ELSE index
     /\ last' = [op |-> "lazy_next", arg |-> 0, lookup |-> FALSE,
                 after |-> "",
                 ret |-> [some |-> incr.some, val |-> incr.val]]
     /\ fresh' = -1
     /\ trav' = TravOff
     /\ CacheUnchanged
     /\ NoLookup
     /\ UNCHANGED src
     /\ UNCHANGED splitVars

\* as NextAt, but the first index, whatever the position
NextAtZero(before, after) == 0

\* as NextAt, but the index reached by lazy_next
NextAtAfter(before, after) == after

\* the index Reiterator::next looks up: the one held before lazy_next
NextAt(before, after) == before

\* as Advanced, but the index moves only when the lookup found a value
AdvancedIfFound(before, after, found) == IF found.some THEN after ELSE before

\* the index next() leaves: the one lazy_next set, whatever at(..) found
Advanced(before, after, found) == after

\* one more call in a run of nothing but Reiterator::next; runs are followed
\* for TravLen calls
Counted(n) == IF n = -1 \/ n >= TravLen THEN -1 ELSE n + 1

\* Reiterator::next(): lazy_next()?, then at(the index before it)
Next_ ==
  LET incr == CheckedIncr(index)
      at == NextAt(index, incr.val)
      out == get(CacheState, at)
  IN IF ~incr.some
     THEN /\ last' = [op |-> "next", arg |-> index, lookup |-> FALSE,
                      after |-> "", ret |-> NoneIndexed]
          /\ fresh' = Counted(fresh)
          /\ trav' = TravNext(trav, NoneIndexed)
          /\ CacheUnchanged
          /\ NoLookup
          /\ UNCHANGED <<src, index>>
          /\ UNCHANGED splitVars
     ELSE /\ Lookup("next", at, out, WithIndex(at, out.ret))
          /\ index' = Advanced(index, incr.val, out.ret)
          /\ fresh' = Counted(fresh)
          /\ trav' = TravNext(trav, WithIndex(at, out.ret))
          /\ UNCHANGED src
          /\ UNCHANGED splitVars

\* as RestartIndex, but the index stays where it is
RestartIndexKept(i) == i

\* the index restart() sets, from index i
RestartIndex(i) == 0

\* Reiterator::restart()
Restart ==
  /\ index' = RestartIndex(index)
  /\ last' = [op |-> "restart", arg |-> 0, lookup |-> FALSE, after |-> "",
              ret |-> NoneRef]
  /\ fresh' = -1
  /\ trav' = TravRestart(trav)
  /\ CacheUnchanged
  /\ NoLookup
  /\ UNCHANGED src
  /\ UNCHANGED splitVars

\* assignment to the public field: iter.index = k
SetIndex(k) ==
  /\ index' = k
  /\ last' = [op |-> "index=", arg |-> k, lookup |-> FALSE, after |-> "",
              ret |-> NoneRef]
  /\ fresh' = -1
  /\ trav' = TravOff
  /\ CacheUnchanged
  /\ NoLookup
  /\ UNCHANGED src
  /\ UNCHANGED splitVars

Next ==
  \/ \E i \in Usize : At(i)
  \/ Get
  \/ LazyNext
  \/ Next_
  \/ Restart
  \/ \E k \in Usize : SetIndex(k)

Spec == Init /\ [][Next]_vars

(***************************************************************************)
(* The split variant (lib_split.rs): Reiterator { iter, cache, index }.    *)
(* The vector `cache` holds the items themselves, so a reference to a      *)
(* cached item is an address inside the vector's buffer.  The calls that   *)
(* move the cursor return nothing; read() and read_index() return the      *)
(* references.                                                             *)
(***************************************************************************)
\* addresses a buffer can have.  Only whether two buffer addresses are equal
\* matters, so two of them stand for all.
Bufs == {1, 2}

\* the address of element idx of a buffer at b
ElemAddr(b, idx) == b * (UsizeMax + 1) + idx

\* Option<Indexed>::None, and Some(Indexed { index, value }) with the item
\* that the reference `value` points to
NoneRead == [some |-> FALSE, index |-> 0, value |-> NullRef, item |-> NoItem]
SomeRead(i, r, x) == [some |-> TRUE, index |-> i, value |-> r, item |-> x]

\* as new, but nothing is read from the source at construction
newLazy(s) ==
  [cursor |-> "some", iter |-> s, cache |-> <<>>, calls |-> 0, nones |-> 0]

\* Reiterator::new: `vec![iter.next()?]`
new(s) ==
  LET first == IterNext(s)
  IN IF first.item = NoItem
     THEN [cursor |-> "none", iter |-> first.iter, cache |-> <<>>,
           calls |-> 1, nones |-> 1]
     ELSE [cursor |-> "some", iter |-> first.iter, cache |-> <<first.item>>,
           calls |-> 1, nones |-> 0]

\* as populate, but with one round in place of the loop
populateOnce(st, idx) ==
  IF idx < Len(st.cache) THEN st
  ELSE LET nx == IterNext(st.iter)
       IN IF nx.item = NoItem
          THEN [st EXCEPT !.iter = nx.iter, !.calls = @ + 1, !.nones = @ + 1]
          ELSE [st EXCEPT !.iter = nx.iter, !.calls = @ + 1,
                          !.cache = Append(@, nx.item)]

\* Reiterator::populate with self.index = idx: the loop, run to its return
RECURSIVE populate(_, _)
populate(st, idx) ==
  IF idx < Len(st.cache) THEN st
  ELSE LET nx == IterNext(st.iter)
       IN IF nx.item = NoItem
          THEN [st EXCEPT !.iter = nx.iter, !.calls = @ + 1, !.nones = @ + 1]
          ELSE populate([st EXCEPT !.iter = nx.iter, !.calls = @ + 1,
                                   !.cache = Append(@, nx.item)], idx)

\* as read_index, but an element is returned only once a later one is cached
read_indexBehind(c, b, idx) ==
  IF idx + 1 < Len(c) THEN SomeRead(idx, ElemAddr(b, idx), c[idx + 1])
  ELSE NoneRead

\* Reiterator::read_index on cache c in a buffer at b
read_index(c, b, idx) ==
  IF idx < Len(c) THEN SomeRead(idx, ElemAddr(b, idx), c[idx + 1])
  ELSE NoneRead

\* Vec::push into a full vector moves the items to a larger buffer.  Neither
\* the capacities the vector takes nor where the allocator puts the larger
\* buffer is fixed by the code: a vector that has grown may have kept its
\* buffer or have any other.
Realloc(b, before, after) == IF Len(after) > Len(before) THEN Bufs ELSE {b}

\* no reference for index 0 is followed
FirstValueOff == [phase |-> "off", ref |-> NullRef]

\* read() returned ret at index idx: a read of index 0 that is followed by
\* no other call yet is the first read; a read straight after the restart()
\* that ended a traversal is the second
FirstValueRead(fv, idx, ret) ==
  IF fv.phase = "off" /\ idx = 0 /\ ret.some
    THEN [phase |-> "read", ref |-> ret.value]
  ELSE IF fv.phase = "restarted" THEN [fv EXCEPT !.phase = "again"]
  ELSE fv

\* call op moved the cursor: next() after the first read is the traversal,
\* restart() after a traversal ends it, anything else ends the following
FirstValueMoved(fv, op) ==
  IF op = "next" /\ fv.phase \in {"read", "grown"}
    THEN [fv EXCEPT !.phase = "grown"]
  ELSE IF op = "restart" /\ fv.phase = "grown"
    THEN [fv EXCEPT !.phase = "restarted"]
  ELSE FirstValueOff

\* there is no cache of the variant of cache.rs
CachedUnused ==
  /\ vec = <<>>
  /\ record = <<>>
  /\ heap = [a \in Addr |-> Free]
  /\ held = {}
  /\ absentAt = -1
  /\ fresh = -1
  /\ trav = TravOff

\* reiterate(source) / Reiterator::new on any source
InitSplit ==
  /\ src \in Scripts
  /\ LET made == new(src)
     IN /\ cursor = made.cursor
        /\ iter = made.iter
        /\ cache = made.cache
        /\ calls = made.calls
        /\ nones = made.nones
  /\ index = 0
  /\ buf \in Bufs
  /\ populated = TRUE
  /\ last = [op |-> "new", arg |-> 0, after |-> "", ret |-> NoneRead]
  /\ first_value = FirstValueOff
  /\ CachedUnused

SplitState == [iter |-> iter, cache |-> cache, calls |-> calls, nones |-> nones]

\* `self.index = idx; self.populate()`, by call op
SplitMove(op, idx) ==
  LET out == populate(SplitState, idx)
  IN /\ cursor = "some"
     /\ out.nones <= MaxNones
     /\ index' = idx
     /\ iter' = out.iter
     /\ cache' = out.cache
     /\ calls' = out.calls
     /\ nones' = out.nones
     /\ buf' \in Realloc(buf, cache, out.cache)
     /\ populated' = TRUE
     /\ last' = [op |-> op, arg |-> idx, after |-> last.op, ret |-> NoneRead]
     /\ first_value' = FirstValueMoved(first_value, op)
     /\ UNCHANGED <<src, cursor>>
     /\ UNCHANGED cachedVars

\* Reiterator::get(i)
SplitGet(i) == SplitMove("get", i)

\* Reiterator::restart(): `self.get(0)`
SplitRestart == SplitMove("restart", 0)

\* Reiterator::populate()
SplitPopulate == SplitMove("populate", index)

\* `self.index + 1` at the largest usize: a build with overflow checks
\* panics
SplitOverflowPanic ==
  /\ cursor = "some"
  /\ cursor' = "panicked"
  /\ last' = [op |-> "next", arg |-> index, after |-> last.op, ret |-> NoneRead]
  /\ first_value' = FirstValueOff
  /\ UNCHANGED <<src, iter, cache, buf, index, calls, nones, populated>>
  /\ UNCHANGED cachedVars

\* Reiterator::next(): `self.get(self.index + 1)`.  At the largest usize the
\* sum overflows: a build without overflow checks wraps it to 0.
SplitNext ==
  IF index < UsizeMax THEN SplitMove("next", index + 1)
  ELSE SplitOverflowPanic \/ SplitMove("next", 0)

\* a call of read_index(idx), as read_index or through read()
SplitReading(op, idx, fv) ==
  /\ cursor = "some"
  /\ populated
  /\ last' = [op |-> op, arg |-> idx, after |-> last.op,
              ret |-> read_index(cache, buf, idx)]
  /\ first_value' = fv
  /\ UNCHANGED <<src, iter, cache, buf, index, calls, nones, populated, cursor>>
  /\ UNCHANGED cachedVars

\* Reiterator::read_index(i)
SplitReadIndex(i) == SplitReading("read_index", i, first_value)

\* Reiterator::read(): `self.read_index(self.index)`
SplitRead ==
  LET ret == read_index(cache, buf, index)
  IN SplitReading("read", index, FirstValueRead(first_value, index, ret))

NextSplit ==
  \/ \E i \in Usize : SplitGet(i)
  \/ SplitRestart
  \/ SplitPopulate
  \/ SplitNext
  \/ \E i \in Usize : SplitReadIndex(i)
  \/ SplitRead

SpecSplit == InitSplit /\ [][NextSplit]_vars

(***************************************************************************)
(* Properties                                                              *)
(***************************************************************************)
\* number of values the source yields
SrcLen == Len(Yields(src))

\* the reference returned by the last call, for either shape of result
RetRef(l) == IF l.op \in {"get", "next"} THEN l.ret.value ELSE l.ret.ref

\* the user holds a reference for index i
HeldAt(i) == \E h \in held : h[1] = i

\* C1: address stability.  Every slot of the vector still holds the address
\* recorded when the slot was created, and a lookup of the index of a
\* reference the user holds returns that same address.
AddressStability ==
  /\ Len(vec) = Len(record)
  /\ \A i \in 1..Len(vec) : vec[i] = record[i]
  /\ \A h \in held :
        (last.lookup /\ last.ret.some /\ last.arg = h[1]) => RetRef(last) = h[2]

\* an index is looked up again after the vector has grown by two elements
\* since its reference was handed out
AddressStabilityWitness ==
  /\ last.lookup /\ last.ret.some
  /\ \E h \in held : h[1] = last.arg /\ h[3] + 2 <= Len(vec)

\* C2 as stated: the source's next has been called exactly count() times.
CallsEqualCount == calls = Len(vec)

\* C2 amended: the calls of the source's next that returned an item are
\* exactly count() many; the calls that returned nothing come on top.
YieldingCallsEqualCount == calls - nones = Len(vec)

\* lookups in and past the source's values have been made, some repeated
YieldingCallsWitness ==
  /\ Len(vec) >= 2
  /\ nones = 2
  /\ calls = Len(vec) + 2

\* C3: once the source has returned nothing, no call calls its next again.
NoPollAfterNone == [][nones > 0 => calls' = calls]_vars

\* C4: over a source that yields n values and then nothing, every at(i),
\* i.e. Cache::get(i), returns the i-th value if i < n and absent otherwise,
\* in whatever order the indices come.
LookupCorrect ==
  (Fused(src) /\ last.op = "at") =>
     IF last.arg < SrcLen
     THEN last.ret.some /\ heap[last.ret.ref] = Yields(src)[last.arg + 1]
     ELSE ~last.ret.some

\* a lookup below an index looked up earlier, after a lookup came back absent
LookupCorrectWitness ==
  /\ Fused(src) /\ last.op = "at"
  /\ last.ret.some
  /\ \E h \in held : last.arg < h[1]
  /\ absentAt # -1
  /\ SrcLen >= 2

\* C5: a reference the user holds still reads the value of its index.
HeldRefsValid ==
  \A h \in held : heap[h[2]] = Yields(src)[h[1] + 1]

\* a reference is held while later lookups have appended two more elements
HeldRefsWitness ==
  \E h \in held : h[3] + 2 <= Len(vec)

\* C6: the store is a prefix of the values the source yields.
PrefixCorrect ==
  /\ Len(vec) <= SrcLen
  /\ \A k \in 1..Len(vec) : heap[vec[k]] = Yields(src)[k]

\* the store holds three values, not all the same
PrefixWitness ==
  /\ Len(vec) = 3
  /\ heap[vec[1]] # heap[vec[3]]

\* C7: over a source that keeps returning nothing after its first nothing,
\* once a lookup of i came back absent the store no longer grows and every
\* lookup of j >= i comes back absent.
ExhaustionFinal ==
  [][(Fused(src) /\ absentAt # -1) =>
        /\ Len(vec') = Len(vec)
        /\ (last'.lookup /\ last'.arg >= absentAt) => ~last'.ret.some]_vars

\* a second lookup came back absent, above the index of an earlier one
ExhaustionWitness ==
  /\ Fused(src)
  /\ nones >= 2
  /\ last.lookup /\ ~last.ret.some
  /\ last.arg > absentAt
  /\ Len(vec) >= 1

\* C8: a lookup of an index that a lookup has already returned gives the same
\* reference, calls the source not at all and leaves the store as it was.
IdempotentLookup ==
  [][(last'.lookup /\ HeldAt(last'.arg)) =>
        /\ last'.ret.some
        /\ \A h \in held : RetRef(last') = h[2]
        /\ calls' = calls
        /\ iter' = iter
        /\ vec' = vec
        /\ heap' = heap]_vars

\* the newest element is looked up again while the source has more to give
IdempotentWitness ==
  /\ last.lookup /\ last.ret.some
  /\ last.arg + 1 = Len(vec)
  /\ \E h \in held : h[1] = last.arg /\ h[3] = Len(vec)
  /\ \E i \in 1..Len(iter) : iter[i] # NoItem
  /\ last.op = "get"
  /\ calls = Len(vec)

\* C9: construction materializes nothing, a lookup of index i materializes
\* no element with an index above i, and no other call materializes any.
Laziness ==
  /\ (vec = <<>> /\ calls = 0 /\ iter = src)
  /\ [][IF last'.lookup
        THEN Len(vec') = Len(vec) \/ Len(vec') <= last'.arg + 1
        ELSE Len(vec') = Len(vec) /\ calls' = calls]_vars

\* a lookup that appended stopped at its index although the source had more
\* values
LazinessWitness ==
  /\ last.lookup /\ last.arg >= 1
  /\ Len(vec) = last.arg + 1
  /\ calls = Len(vec)
  /\ \E i \in 1..Len(iter) : iter[i] # NoItem

\* C10: each next() looks up the position held before the call and leaves
\* the position one past it; on a fresh cursor over a source of n values the
\* k-th call (k <= n) returns (k-1, the (k-1)-th value) and call n+1 absent.
CursorTraversal ==
  [][(last'.op = "next" /\ index < UsizeMax) =>
        /\ index' = index + 1
        /\ last'.arg = index
        /\ last'.ret.some =>
              /\ last'.ret.index = index
              /\ heap'[last'.ret.value] = Yields(src)[index + 1]
        /\ (Fused(src) /\ fresh' \in 1..(SrcLen + 1)) =>
              /\ index = fresh' - 1
              /\ IF fresh' <= SrcLen
                 THEN /\ last'.ret.some
                      /\ last'.ret.index = fresh' - 1
                      /\ heap'[last'.ret.value] = Yields(src)[fresh']
                 ELSE ~last'.ret.some]_vars

\* call n+1 of a fresh cursor over three values has just returned absent
CursorTraversalWitness ==
  /\ Fused(src) /\ SrcLen = 3
  /\ fresh = SrcLen + 1
  /\ last.op = "next" /\ ~last.ret.some
  /\ index = 4
  /\ Len(vec) = 3

\* C11: restart() followed by the same next() calls returns what the first
\* traversal returned, call by call, with the same indices and addresses,
\* and calls the source for no index the first traversal got a value for.
\* (The source is one that keeps returning nothing after its first nothing.)
RestartReplay ==
  [][(Fused(src) /\ trav.phase = "replay" /\ trav.pos < Len(trav.first)
        /\ last'.op = "next") =>
        /\ last'.ret = trav.first[trav.pos + 1]
        /\ trav.first[trav.pos + 1].some => (calls' = calls /\ vec' = vec)]_vars

\* a traversal of three values and one absent has been replayed to its end
RestartReplayWitness ==
  /\ Fused(src)
  /\ trav.phase = "replay" /\ Len(trav.first) = 4 /\ trav.pos = 4
  /\ trav.first[3].some /\ ~trav.first[4].some
  /\ last.op = "next"

\* C12: at(i) and get() leave the current index as it is; get() returns the
\* pair for the current index, and get() straight after get() returns the
\* identical pair.  (The source is one that keeps returning nothing after
\* its first nothing.)
PeekKeepsCursor ==
  [][last'.op \in {"at", "get"} =>
        /\ index' = index
        /\ last'.op = "get" =>
              /\ last'.arg = index
              /\ last'.ret.some => last'.ret.index = index
        /\ (Fused(src) /\ last'.after = "get") => last'.ret = last.ret]_vars

\* get() was called twice in a row at a position past the first
PeekKeepsCursorWitness ==
  /\ last.op = "get" /\ last.after = "get"
  /\ last.ret.some
  /\ index >= 1

\* C13: lazy_next() below the largest usize sets the index one higher and
\* returns the new index; at the largest usize it returns nothing and leaves
\* the index there.  It returns nothing in no other case, and never calls the
\* source.
LazyNextAdvances ==
  [][last'.op = "lazy_next" =>
        /\ IF index < UsizeMax
           THEN /\ index' = index + 1
                /\ last'.ret = [some |-> TRUE, val |-> index + 1]
           ELSE /\ index' = UsizeMax
                /\ ~last'.ret.some
        /\ calls' = calls /\ vec' = vec]_vars

\* lazy_next() was refused at the largest usize, the source already exhausted
LazyNextWitness ==
  /\ last.op = "lazy_next" /\ ~last.ret.some
  /\ index = UsizeMax
  /\ nones > 0 /\ Len(vec) = SrcLen /\ SrcLen > 0

\* C14: after the index field is assigned k, the next get() or next()
\* returns (k, k-th value of the source) when the source has a k-th value,
\* with every element up to k cached, and nothing when it has not.  (The
\* source is one that keeps returning nothing after its first nothing.)
StartAnywhere ==
  [][(Fused(src) /\ last.op = "index=" /\ last'.op \in {"get", "next"}) =>
        IF index < SrcLen
        THEN /\ last'.ret.some
             /\ last'.ret.index = index
             /\ heap'[last'.ret.value] = Yields(src)[index + 1]
             /\ Len(vec') > index
        ELSE last'.ret = NoneIndexed]_vars

\* the index was assigned 2, and the next() straight after it returned the
\* third value of a source polled three times
StartAnywhereWitness ==
  /\ Fused(src)
  /\ last.op = "next" /\ last.after = "index="
  /\ last.ret.some /\ last.ret.index = 2
  /\ calls = 3 /\ nones = 0 /\ held = {}

\* C15: a lookup of any index, however large, returns after at most
\* n - count + 1 calls to the source, n the number of values of the source
\* and count the number cached before the lookup, and it returns nothing
\* when the index is n or more.
LookupTerminates ==
  [][last'.lookup =>
        /\ calls' - calls <= SrcLen - Len(vec) + 1
        /\ last'.arg >= SrcLen => ~last'.ret.some]_vars

\* the largest index was looked up on a source of MaxLen values, none of
\* them absent before: the lookup took the source to its end
LookupTerminatesWitness ==
  /\ last.op = "at" /\ last.arg = UsizeMax /\ ~last.ret.some
  /\ SrcLen = MaxLen /\ Len(vec) = MaxLen
  /\ calls = MaxLen + 1 /\ nones = 1
  /\ absentAt = UsizeMax

\* C16: is_empty() is true exactly when the source has given no value yet:
\* it is true after construction, true after lookups on a source without
\* values, false after a lookup that returned a value, and once false it
\* stays false.
IsEmptyExact ==
  /\ is_empty
  /\ [](is_empty <=> calls = nones)
  /\ [](is_empty <=> \A a \in Addr : heap[a] = Free)
  /\ [](SrcLen = 0 => is_empty)
  /\ [][(last'.lookup /\ last'.ret.some) => ~is_empty']_vars
  /\ [][~is_empty => ~is_empty']_vars

\* a source without values was looked up twice, and the cache is empty
IsEmptyWitness ==
  /\ is_empty
  /\ src = <<>> /\ calls = 2
  /\ last.lookup /\ ~last.ret.some

\* C17 (split variant): constructing the cursor computes and caches none of
\* the values of the source: straight after new, the source has not been
\* called and the cache holds nothing.
LazyConstruction == last.op = "new" => (calls = 0 /\ cache = <<>>)

\* C18 (split variant): new returns None exactly when the source has no
\* value; otherwise it returns a cursor with index 0, and a read() straight
\* after it returns (0, first value of the source).  (The source is one that
\* keeps returning nothing after its first nothing.)
NewSomeIffValue ==
  /\ [](last.op = "new" =>
          /\ Fused(src) => (cursor = "none" <=> SrcLen = 0)
          /\ cursor = "some" => index = 0)
  /\ [][(last.op = "new" /\ last'.op = "read") =>
          /\ last'.ret.some
          /\ last'.ret.index = 0
          /\ last'.ret.item = Yields(src)[1]]_vars

\* read() straight after new, on a source of MaxLen values
NewSomeWitness ==
  /\ last.op = "read" /\ last.after = "new"
  /\ last.ret.some
  /\ SrcLen = MaxLen /\ Fused(src)

\* C19 (split variant): the reference read for index 0 ahead of a traversal
\* by next() that took the cache to the end of the source has the address of
\* the reference read for index 0 after the restart() that follows the
\* traversal.
FirstValueKept ==
  (last.op = "read" /\ first_value.phase = "again" /\ Len(cache) = SrcLen
     /\ nones > 0) =>
     last.ret.value = first_value.ref

\* C20 (split variant): read_index(i) and read() call the source for
\* nothing and change nothing of the cursor; read() reads the current index;
\* read_index(i) returns (i, i-th value) exactly when the source has given
\* its i-th value in an earlier call.
ReadOnly ==
  [][last'.op \in {"read", "read_index"} =>
        /\ UNCHANGED <<iter, cache, buf, index, calls, nones, cursor>>
        /\ last'.op = "read" => last'.arg = index
        /\ last'.ret.some <=> calls - nones > last'.arg
        /\ last'.ret.some =>
              /\ last'.ret.index = last'.arg
              /\ last'.ret.item = Yields(src)[last'.arg + 1]]_vars

\* read_index found nothing at an index whose value the source has, but has
\* not been asked for yet
ReadOnlyWitness ==
  /\ last.op = "read_index" /\ last.arg = 2 /\ ~last.ret.some
  /\ SrcLen = 3 /\ Len(cache) = 2

\* C21: next() returns what at(p) would have returned just before the call,
\* p the index before the call, paired with p: a value exactly when at(p)
\* would return one, the same item, and the same address when the item was
\* cached already.  This holds at the largest usize too, where both return
\* nothing.
NextIsLookupBefore ==
  [][last'.op = "next" =>
        LET out == get(CacheState, index)
        IN /\ last'.ret.some <=> out.ret.some
           /\ last'.ret.some =>
                 /\ last'.ret.index = index
                 /\ heap'[last'.ret.value] = out.st.heap[out.ret.ref]
                 /\ Cached(vec, index) => last'.ret.value = out.ret.ref]_vars

\* next() was called at the largest usize, after next() calls that returned
\* values
NextIsLookupWitness ==
  /\ last.op = "next" /\ last.arg = UsizeMax /\ index = UsizeMax
  /\ ~last.ret.some
  /\ Len(vec) = MaxLen /\ calls = MaxLen + 1

\* C22: restart(), lazy_next() and an assignment to the index call the
\* source for nothing and leave the cache as it is, count and contents; a
\* step that adds an element is a lookup (at, get or next).
RepositioningIsBookkeeping ==
  [][/\ last'.op \in {"restart", "lazy_next", "index="} =>
          /\ calls' = calls /\ nones' = nones /\ iter' = iter
          /\ vec' = vec /\ heap' = heap
     /\ (vec' # vec \/ calls' # calls) =>
          (last'.lookup /\ last'.op \in {"at", "get", "next"})]_vars

\* restart() was called after a traversal by next() that filled the cache
RepositioningWitness ==
  /\ last.op = "restart" /\ index = 0
  /\ Len(vec) = MaxLen /\ nones = 0
  /\ trav.phase = "replay" /\ Len(trav.first) = MaxLen

\* C23: next() below the largest usize leaves the position one higher
\* whether or not it returned a value: after m calls of next() and nothing
\* else on a new cursor the position is m, also past the end of the source,
\* where every next() returns nothing.
AdvanceRegardless ==
  /\ [](fresh >= 0 => index = fresh)
  /\ [][(last'.op = "next" /\ index < UsizeMax /\ ~last'.ret.some) =>
          index' = index + 1]_vars
  /\ []((last.op = "next" /\ last.arg >= SrcLen) => ~last.ret.some)

\* three calls of next() on a new cursor over one value: the last two found
\* nothing and the position is 3
AdvanceRegardlessWitness ==
  /\ fresh = 3 /\ index = 3
  /\ SrcLen = 1 /\ Fused(src)
  /\ last.op = "next" /\ last.arg = 2 /\ ~last.ret.some
  /\ nones = 2

\* C24: the cache grows by appending only.  No step lowers the number of
\* elements, every element a step finds is at its index after the step, in
\* the same box, and holds the same item.
AppendOnly ==
  [][/\ Len(vec') >= Len(vec)
     /\ SubSeq(vec', 1, Len(vec)) = vec
     /\ \A i \in 1..Len(vec) : heap'[vec'[i]] = heap[vec[i]]]_vars

\* a next() took the cache to MaxLen elements while the user holds the
\* reference for index 0 from the time the cache had one element
AppendOnlyWitness ==
  /\ last.op = "next" /\ last.arg = MaxLen - 1 /\ last.ret.some
  /\ Len(vec) = MaxLen /\ calls = MaxLen
  /\ \E h \in held : h[1] = 0 /\ h[3] = 1 /\ h[2] = vec[1]

NextKeepsMaxIndex ==
  [][(last'.op = "next" /\ index = UsizeMax) =>
        (index' = UsizeMax /\ cursor' = "some")]_vars

=============================================================================
